---- MODULE Spec2Model ----
(***************************************************************************)
(* Governance contract (contracts/gov/src/contract.rs): the poll lifecycle *)
(* Create -> Vote -> End -> Execute over the contract's stores.            *)
(*                                                                         *)
(* Each handler is an operator from the stores, the environment and the    *)
(* call's arguments to its outcome: the Result it returns (result is "Ok"  *)
(* or the error kind, with the Response's messages and attributes) and the *)
(* stores as the call leaves them.  A handler that returns Err leaves in   *)
(* the stores whatever it had written before the return, exactly as the    *)
(* function does on the storage it is handed.  One action per handler      *)
(* applies the outcome atomically.                                         *)
(*                                                                         *)
(* Option<T> is a sequence of length at most one: <<>> is None, <<x>> is   *)
(* Some(x).  Addresses are strings, "" is CanonicalAddr::from(vec![]).     *)
(*                                                                         *)
(* Treasury contract (contracts/treasury/treasury/src/contract.rs): the    *)
(* trader whitelist and its admin, a contract of its own with its own      *)
(* stores; the governance handlers leave them alone and the treasury       *)
(* handlers leave the governance stores alone.                             *)
(***************************************************************************)
EXTENDS Integers, Sequences, FiniteSets, Bags, TLC

VARIABLES
    config,     \* Config singleton (config_store)
    state,      \* State singleton (state_store)
    polls,      \* poll_store: poll id -> Poll
    indexer,    \* poll_indexer_store: status -> set of poll ids
    voters,     \* poll_voter_store: <<poll id, voter>> -> VoterInfo
    bank,       \* bank_store: account -> TokenManager
    height,     \* env.block.height
    balance,    \* the token balance the oracle reports for the contract
    accepted,   \* history: bag of the votes that returned Ok
    refunds,    \* history: poll id -> number of refund transfers emitted
    executions, \* history: poll id -> number of execute_poll calls that
                \* returned Ok
    traders,    \* treasury STATE.traders: Vec<CanonicalAddr>
    admin       \* treasury ADMIN

stores == <<config, state, polls, indexer, voters, bank>>
treasury_stores == <<traders, admin>>
vars == <<config, state, polls, indexer, voters, bank, height, balance,
          accepted, refunds, executions, traders, admin>>

----------------------------------------------------------------------------
(* Bounds of the model *)

MaxPolls == 2
MaxHeight == 2
MaxBalance == 3

(* Inputs the calls are drawn from *)

Voters == {"alice", "bob"}
TokenAddr == "whale"
HookSenders == {"whale", "alice"}
Amounts == {1}
VoteOptions == {"yes", "no"}
PollIds == 0 .. (MaxPolls + 1)

None == <<>>
Some(x) == <<x>>

(* The treasury's accounts: who instantiates it, who may be made admin,    *)
(* the contracts that may be whitelisted, and the message lists a trader   *)
(* asks it to forward                                                      *)
Instantiator == "owner"
AdminAddrs == {"owner", "gov", "dapp1"}
TraderAddrs == {"dapp1", "dapp2", "dapp3"}
TreasurySenders == AdminAddrs \cup TraderAddrs
MsgLists == { <<>>, <<"m1", "m2">> }

Statuses == {"InProgress", "Passed", "Rejected", "Executed"}

(* The Cw20ReceiveMsg a hook call carries: the sender of the tokens, the    *)
(* amount sent, and the CreatePoll message's Option<Vec<PollExecuteMsg>>   *)
Actions21 ==
    << [order |-> 2, contract |-> "c1", msg |-> "m1"],
       [order |-> 1, contract |-> "c2", msg |-> "m2"] >>

Cw20Msgs ==
    { [sender |-> "alice", amount |-> 0, execute_msgs |-> None],
      [sender |-> "bob", amount |-> 1, execute_msgs |-> Some(Actions21)],
      [sender |-> "alice", amount |-> 2, execute_msgs |-> None] }

(* Hook messages whose action lists are out of order and hold entries of   *)
(* equal order                                                             *)
Actions312 ==
    << [order |-> 3, contract |-> "c1", msg |-> "m1"],
       [order |-> 1, contract |-> "c2", msg |-> "m2"],
       [order |-> 2, contract |-> "c3", msg |-> "m3"] >>

Actions2121 ==
    << [order |-> 2, contract |-> "c1", msg |-> "m1"],
       [order |-> 1, contract |-> "c2", msg |-> "m2"],
       [order |-> 2, contract |-> "c3", msg |-> "m3"],
       [order |-> 1, contract |-> "c4", msg |-> "m4"] >>

OrderMsgs ==
    { [sender |-> "bob", amount |-> 1, execute_msgs |-> Some(Actions312)],
      [sender |-> "bob", amount |-> 1, execute_msgs |-> Some(Actions2121)] }

(* InstantiateMsg; the ratios are Decimal::percent(n) *)
InstantiateMsgs ==
    { [quorum |-> 50, threshold |-> 50, voting_period |-> 1,
       timelock_period |-> 1, expiration_period |-> 1,
       proposal_deposit |-> 0, snapshot_period |-> 1],
      [quorum |-> 100, threshold |-> 0, voting_period |-> 1,
       timelock_period |-> 0, expiration_period |-> 1,
       proposal_deposit |-> 1, snapshot_period |-> 2] }

(* TokenManager.share per account, as the staking path leaves it; the      *)
(* contract file itself never writes a share.  State.total_share is their  *)
(* sum.                                                                    *)
StakedShares ==
    { [v \in Voters |-> 0],
      [v \in Voters |-> IF v = "alice" THEN 2 ELSE 1] }

----------------------------------------------------------------------------
(* cosmwasm_std::Decimal, as an exact ratio.  Decimal keeps 18 fractional  *)
(* digits and from_ratio rounds down; for a ratio of amounts below 10^16   *)
(* compared with Decimal::percent(n), the rounding never changes the       *)
(* outcome of < or >, so the comparison is the comparison of the ratios.   *)

DecimalZero == [num |-> 0, den |-> 1]
DecimalPercent(n) == [num |-> n, den |-> 100]
DecimalFromRatio(n, d) == [num |-> n, den |-> d]
DecimalLt(a, b) == a.num * b.den < b.num * a.den
DecimalGt(a, b) == a.num * b.den > b.num * a.den

(* Uint128::multiply_ratio: floor(a * n / d); the caller checks d # 0 *)
MultiplyRatio(a, n, d) == (a * n) \div d

----------------------------------------------------------------------------
(* Outcomes *)

(* Response::default() on the stores as they are *)
Unchanged(result) ==
    [result |-> result, messages |-> <<>>, poll_id |-> 0,
     rejected_reason |-> "", passed |-> FALSE, amount |-> 0, voter |-> "",
     vote_option |-> "", end_height |-> 0, required |-> 0,
     config |-> config, state |-> state, polls |-> polls,
     indexer |-> indexer, voters |-> voters, bank |-> bank]

Apply(o) ==
    /\ config' = o.config
    /\ state' = o.state
    /\ polls' = o.polls
    /\ indexer' = o.indexer
    /\ voters' = o.voters
    /\ bank' = o.bank

TransferMsg(token, recipient, amount) ==
    [contract_addr |-> token, funds |-> <<>>,
     msg |-> [type |-> "transfer", recipient |-> recipient,
              amount |-> amount, data |-> ""]]

ExecuteMsgOf(d) ==
    [contract_addr |-> d.contract, funds |-> <<>>,
     msg |-> [type |-> "execute", recipient |-> "", amount |-> 0,
              data |-> d.msg]]

(* mutant: the id is saved under the new status, never removed from the old *)
IndexerMove_NoRemove(from, to, poll_id) ==
    [s \in Statuses |->
       IF s = to THEN indexer[s] \cup {poll_id} ELSE indexer[s]]

(* poll_indexer_store(from).remove(id), then poll_indexer_store(to).save   *)
IndexerMove(from, to, poll_id) ==
    [s \in Statuses |->
       IF s = to THEN indexer[s] \cup {poll_id}
       ELSE IF s = from THEN indexer[s] \ {poll_id}
       ELSE indexer[s]]

----------------------------------------------------------------------------
Init ==
    /\ \E m \in InstantiateMsgs :
          config = [whale_token |-> "", quorum |-> m.quorum,
                    threshold |-> m.threshold,
                    voting_period |-> m.voting_period,
                    timelock_period |-> m.timelock_period,
                    expiration_period |-> m.expiration_period,
                    proposal_deposit |-> m.proposal_deposit,
                    snapshot_period |-> m.snapshot_period]
    /\ \E sh \in StakedShares :
          /\ bank = [v \in {a \in Voters : sh[a] > 0} |->
                       [share |-> sh[v], locked_balance |-> <<>>]]
          /\ state = [poll_count |-> 0,
                      total_share |-> sh["alice"] + sh["bob"],
                      total_deposit |-> 0]
    /\ polls = <<>>
    /\ indexer = [s \in Statuses |-> {}]
    /\ voters = <<>>
    /\ height = 0
    /\ balance = 0
    /\ accepted = EmptyBag
    /\ refunds = [p \in 1 .. MaxPolls |-> 0]
    /\ executions = [p \in 1 .. MaxPolls |-> 0]
    /\ traders = <<>>
    /\ admin = Instantiator

----------------------------------------------------------------------------
(* register_contracts *)

(* mutant: the address is registered whether or not one is already set *)
register_contracts_Again(whale_token) ==
    [Unchanged("Ok") EXCEPT
       !.config = [config EXCEPT !.whale_token = whale_token]]

register_contracts(whale_token) ==
    IF config.whale_token # ""
      THEN Unchanged("Unauthorized")
      ELSE [Unchanged("Ok") EXCEPT
              !.config = [config EXCEPT !.whale_token = whale_token]]

RegisterContracts(whale_token) ==
    /\ Apply(register_contracts(whale_token))
    /\ UNCHANGED treasury_stores
    /\ UNCHANGED <<height, balance, accepted, refunds, executions>>

----------------------------------------------------------------------------
(* create_poll *)

(* lines 134-147: the hook's PollExecuteMsg list becomes the poll's        *)
(* ExecuteData list, entry by entry, in the order given                    *)
ToExecuteData(execute_msgs) ==
    IF execute_msgs = None THEN None
    ELSE Some([i \in 1 .. Len(execute_msgs[1]) |->
                 [order |-> execute_msgs[1][i].order,
                  contract |-> execute_msgs[1][i].contract,
                  msg |-> execute_msgs[1][i].msg]])

NewPoll(poll_id, proposer, deposit_amount, execute_msgs) ==
    [id |-> poll_id,
     creator |-> proposer,
     status |-> "InProgress",
     yes_votes |-> 0,
     no_votes |-> 0,
     end_height |-> height + config.voting_period,
     execute_data |-> ToExecuteData(execute_msgs),
     deposit_amount |-> deposit_amount,
     total_balance_at_end_poll |-> None,
     staked_amount |-> None]

(* mutant: the deposit is not added to the total deposit *)
create_poll_NoDeposit(proposer, deposit_amount, execute_msgs) ==
    IF deposit_amount < config.proposal_deposit
      THEN [Unchanged("InsufficientProposalDeposit") EXCEPT
              !.required = config.proposal_deposit]
      ELSE LET poll_id == state.poll_count + 1
               new_poll == NewPoll(poll_id, proposer, deposit_amount,
                                   execute_msgs)
           IN [Unchanged("Ok") EXCEPT
                 !.state = [state EXCEPT
                              !.poll_count = state.poll_count + 1],
                 !.polls = (poll_id :> new_poll) @@ polls,
                 !.indexer = [indexer EXCEPT
                                !["InProgress"] = @ \cup {poll_id}],
                 !.voter = new_poll.creator,
                 !.poll_id = poll_id,
                 !.end_height = new_poll.end_height]

(* mutant: the poll counter is not increased *)
create_poll_NoCount(proposer, deposit_amount, execute_msgs) ==
    IF deposit_amount < config.proposal_deposit
      THEN [Unchanged("InsufficientProposalDeposit") EXCEPT
              !.required = config.proposal_deposit]
      ELSE LET poll_id == state.poll_count + 1
               new_poll == NewPoll(poll_id, proposer, deposit_amount,
                                   execute_msgs)
           IN [Unchanged("Ok") EXCEPT
                 !.state = [state EXCEPT
                              !.total_deposit = state.total_deposit
                                                + deposit_amount],
                 !.polls = (poll_id :> new_poll) @@ polls,
                 !.indexer = [indexer EXCEPT
                                !["InProgress"] = @ \cup {poll_id}],
                 !.voter = new_poll.creator,
                 !.poll_id = poll_id,
                 !.end_height = new_poll.end_height]

(* mutant: a deposit equal to the required minimum is refused *)
create_poll_DepositLe(proposer, deposit_amount, execute_msgs) ==
    IF deposit_amount <= config.proposal_deposit
      THEN [Unchanged("InsufficientProposalDeposit") EXCEPT
              !.required = config.proposal_deposit]
      ELSE LET poll_id == state.poll_count + 1
               new_poll == NewPoll(poll_id, proposer, deposit_amount,
                                   execute_msgs)
           IN [Unchanged("Ok") EXCEPT
                 !.state = [state EXCEPT
                              !.poll_count = state.poll_count + 1,
                              !.total_deposit = state.total_deposit
                                                + deposit_amount],
                 !.polls = (poll_id :> new_poll) @@ polls,
                 !.indexer = [indexer EXCEPT
                                !["InProgress"] = @ \cup {poll_id}],
                 !.voter = new_poll.creator,
                 !.poll_id = poll_id,
                 !.end_height = new_poll.end_height]

create_poll(proposer, deposit_amount, execute_msgs) ==
    IF deposit_amount < config.proposal_deposit
      THEN [Unchanged("InsufficientProposalDeposit") EXCEPT
              !.required = config.proposal_deposit]
      ELSE LET poll_id == state.poll_count + 1
               new_poll == NewPoll(poll_id, proposer, deposit_amount,
                                   execute_msgs)
           IN [Unchanged("Ok") EXCEPT
                 !.state = [state EXCEPT
                              !.poll_count = state.poll_count + 1,
                              !.total_deposit = state.total_deposit
                                                + deposit_amount],
                 !.polls = (poll_id :> new_poll) @@ polls,
                 !.indexer = [indexer EXCEPT
                                !["InProgress"] = @ \cup {poll_id}],
                 !.voter = new_poll.creator,
                 !.poll_id = poll_id,
                 !.end_height = new_poll.end_height]

(* mutant: the sender of the hook is not compared with the token *)
receive_cw20_NoAuth(sender, hook, cw20_msg) ==
    IF hook # "CreatePoll" THEN Unchanged("DataShouldBeGiven")
    ELSE create_poll(cw20_msg.sender, cw20_msg.amount, cw20_msg.execute_msgs)

(* receive_cw20: the only caller of create_poll.  hook is the decoded      *)
(* Cw20HookMsg: "CreatePoll", or anything else from_binary does not accept *)
receive_cw20(sender, hook, cw20_msg) ==
    IF config.whale_token # sender THEN Unchanged("Unauthorized")
    ELSE IF hook # "CreatePoll" THEN Unchanged("DataShouldBeGiven")
    ELSE create_poll(cw20_msg.sender, cw20_msg.amount, cw20_msg.execute_msgs)

ReceiveCw20(sender, hook, cw20_msg) ==
    /\ state.poll_count < MaxPolls
    /\ height + config.voting_period <= MaxHeight
    /\ Apply(receive_cw20(sender, hook, cw20_msg))
    /\ UNCHANGED treasury_stores
    /\ UNCHANGED <<height, balance, accepted, refunds, executions>>

----------------------------------------------------------------------------
(* end_poll *)

(* mutant: the poll's snapshot is ignored, the live balance always used *)
StakedWeightAtEnd_Live(a_poll) ==
    IF state.total_share = 0
      THEN [result |-> "Ok", quorum |-> DecimalZero, staked_weight |-> 0]
    ELSE IF balance < state.total_deposit
      THEN [result |-> "Overflow", quorum |-> DecimalZero,
            staked_weight |-> 0]
    ELSE IF balance - state.total_deposit = 0
      THEN [result |-> "Panic", quorum |-> DecimalZero, staked_weight |-> 0]
    ELSE [result |-> "Ok",
          quorum |-> DecimalFromRatio(a_poll.yes_votes + a_poll.no_votes,
                                      balance - state.total_deposit),
          staked_weight |-> balance - state.total_deposit]

(* lines 214-233: the quorum and the staked weight it is taken against.    *)
(* Decimal::from_ratio panics on a zero denominator; checked_sub returns   *)
(* an overflow error                                                       *)
StakedWeightAtEnd(a_poll) ==
    IF state.total_share = 0
      THEN [result |-> "Ok", quorum |-> DecimalZero, staked_weight |-> 0]
    ELSE IF a_poll.staked_amount # None
      THEN IF a_poll.staked_amount[1] = 0
             THEN [result |-> "Panic", quorum |-> DecimalZero,
                   staked_weight |-> 0]
             ELSE [result |-> "Ok",
                   quorum |-> DecimalFromRatio(
                                a_poll.yes_votes + a_poll.no_votes,
                                a_poll.staked_amount[1]),
                   staked_weight |-> a_poll.staked_amount[1]]
    ELSE IF balance < state.total_deposit
      THEN [result |-> "Overflow", quorum |-> DecimalZero,
            staked_weight |-> 0]
    ELSE IF balance - state.total_deposit = 0
      THEN [result |-> "Panic", quorum |-> DecimalZero, staked_weight |-> 0]
    ELSE [result |-> "Ok",
          quorum |-> DecimalFromRatio(a_poll.yes_votes + a_poll.no_votes,
                                      balance - state.total_deposit),
          staked_weight |-> balance - state.total_deposit]

(* mutant: a quorum ratio equal to config.quorum counts as not reached *)
Tally_QuorumLe(yes, no, quorum, cfg_quorum, cfg_threshold) ==
    IF yes + no = 0 \/ ~DecimalGt(quorum, cfg_quorum)
      THEN [status |-> "Rejected", rejected_reason |-> "Quorum not reached",
            passed |-> FALSE]
    ELSE IF DecimalGt(DecimalFromRatio(yes, yes + no), cfg_threshold)
      THEN [status |-> "Passed", rejected_reason |-> "", passed |-> TRUE]
    ELSE [status |-> "Rejected", rejected_reason |-> "Threshold not reached",
          passed |-> FALSE]

(* lines 235-247: the outcome of the tally *)
Tally(yes, no, quorum, cfg_quorum, cfg_threshold) ==
    IF yes + no = 0 \/ DecimalLt(quorum, cfg_quorum)
      THEN [status |-> "Rejected", rejected_reason |-> "Quorum not reached",
            passed |-> FALSE]
    ELSE IF DecimalGt(DecimalFromRatio(yes, yes + no), cfg_threshold)
      THEN [status |-> "Passed", rejected_reason |-> "", passed |-> TRUE]
    ELSE [status |-> "Rejected", rejected_reason |-> "Threshold not reached",
          passed |-> FALSE]

(* mutant: the deposit is refunded whatever the reason of the rejection *)
RefundMessages_Always(a_poll, tally) ==
    IF a_poll.deposit_amount # 0
      THEN << TransferMsg(config.whale_token, a_poll.creator,
                          a_poll.deposit_amount) >>
      ELSE <<>>

(* lines 249-259: the refund of the deposit *)
RefundMessages(a_poll, tally) ==
    IF tally.rejected_reason # "Quorum not reached"
       /\ a_poll.deposit_amount # 0
      THEN << TransferMsg(config.whale_token, a_poll.creator,
                          a_poll.deposit_amount) >>
      ELSE <<>>

(* mutant: the total deposit is not decreased *)
StateAfterEnd_Kept(a_poll) == state

(* lines 262-264: the total deposit is decreased by the poll's deposit     *)
StateAfterEnd(a_poll) ==
    [state EXCEPT
       !.total_deposit = state.total_deposit - a_poll.deposit_amount]

(* mutant: the status of the poll is not checked *)
end_poll_precheck_NoStatus(poll_id) ==
    IF poll_id \notin DOMAIN polls THEN "NotFound"
    ELSE IF polls[poll_id].end_height > height THEN "PollVotingPeriod"
    ELSE "Ok"

(* mutant: the end of the voting period is not checked *)
end_poll_precheck_NoPeriod(poll_id) ==
    IF poll_id \notin DOMAIN polls THEN "NotFound"
    ELSE IF polls[poll_id].status # "InProgress" THEN "PollNotInProgress"
    ELSE "Ok"

(* the checks of lines 191-199 *)
end_poll_precheck(poll_id) ==
    IF poll_id \notin DOMAIN polls THEN "NotFound"
    ELSE IF polls[poll_id].status # "InProgress" THEN "PollNotInProgress"
    ELSE IF polls[poll_id].end_height > height THEN "PollVotingPeriod"
    ELSE "Ok"

end_poll(poll_id) ==
    IF end_poll_precheck(poll_id) # "Ok"
      THEN Unchanged(end_poll_precheck(poll_id))
    ELSE IF StakedWeightAtEnd(polls[poll_id]).result # "Ok"
      THEN Unchanged(StakedWeightAtEnd(polls[poll_id]).result)
    ELSE IF state.total_deposit < polls[poll_id].deposit_amount
      THEN Unchanged("Overflow")
    ELSE LET a_poll == polls[poll_id]
             sw == StakedWeightAtEnd(a_poll)
             tally == Tally(a_poll.yes_votes, a_poll.no_votes, sw.quorum,
                            DecimalPercent(config.quorum),
                            DecimalPercent(config.threshold))
         IN [Unchanged("Ok") EXCEPT
               !.state = StateAfterEnd(a_poll),
               !.indexer = IndexerMove("InProgress", tally.status, a_poll.id),
               !.polls = [polls EXCEPT
                            ![poll_id] =
                               [a_poll EXCEPT
                                  !.status = tally.status,
                                  !.total_balance_at_end_poll =
                                      Some(sw.staked_weight)]],
               !.messages = RefundMessages(a_poll, tally),
               !.poll_id = poll_id,
               !.rejected_reason = tally.rejected_reason,
               !.passed = tally.passed]

EndPoll(poll_id) ==
    /\ Apply(end_poll(poll_id))
    /\ refunds' = IF poll_id \in DOMAIN refunds
                    THEN [refunds EXCEPT
                            ![poll_id] = @ + Len(end_poll(poll_id).messages)]
                    ELSE refunds
    /\ UNCHANGED treasury_stores
    /\ UNCHANGED <<height, balance, accepted, executions>>

----------------------------------------------------------------------------
(* execute_poll *)

(* Vec::sort with ExecuteData's Ord, which compares the order field alone: *)
(* a stable sort by order, here by insertion                               *)
RECURSIVE InsertByOrder(_, _)
InsertByOrder(d, sorted) ==
    IF sorted = <<>> THEN <<d>>
    ELSE IF d.order < Head(sorted).order THEN <<d>> \o sorted
    ELSE <<Head(sorted)>> \o InsertByOrder(d, Tail(sorted))

(* mutant: an unstable sort, entries of equal order end up reversed *)
RECURSIVE SortByOrder_Unstable(_)
SortByOrder_Unstable(msgs) ==
    IF msgs = <<>> THEN <<>>
    ELSE InsertByOrder(Head(msgs), SortByOrder_Unstable(Tail(msgs)))

(* msgs.sort() of line 315 *)
RECURSIVE SortByOrder(_)
SortByOrder(msgs) ==
    IF msgs = <<>> THEN <<>>
    ELSE InsertByOrder(msgs[Len(msgs)],
                       SortByOrder(SubSeq(msgs, 1, Len(msgs) - 1)))

(* mutant: the timelock is not checked *)
execute_poll_precheck_NoTimelock(poll_id) ==
    IF poll_id \notin DOMAIN polls THEN "NotFound"
    ELSE IF polls[poll_id].status # "Passed" THEN "PollNotPassed"
    ELSE "Ok"

(* the checks of lines 296-304, made before the first store write *)
execute_poll_precheck(poll_id) ==
    IF poll_id \notin DOMAIN polls THEN "NotFound"
    ELSE IF polls[poll_id].status # "Passed" THEN "PollNotPassed"
    ELSE IF polls[poll_id].end_height + config.timelock_period > height
      THEN "TimelockNotExpired"
    ELSE "Ok"

ExecuteMessages(a_poll) ==
    LET msgs == SortByOrder(a_poll.execute_data[1])
    IN [i \in 1 .. Len(msgs) |-> ExecuteMsgOf(msgs[i])]

(* mutant: the action list is taken out of the poll before it is saved *)
execute_poll_TakesData(poll_id) ==
    IF execute_poll_precheck(poll_id) # "Ok"
      THEN Unchanged(execute_poll_precheck(poll_id))
      ELSE LET written ==
                 [Unchanged("Ok") EXCEPT
                    !.indexer = IndexerMove("Passed", "Executed", poll_id),
                    !.polls = [polls EXCEPT
                                 ![poll_id].status = "Executed",
                                 ![poll_id].execute_data = None]]
           IN IF polls[poll_id].execute_data = None
                THEN [written EXCEPT !.result = "NoExecuteData"]
                ELSE [written EXCEPT
                        !.messages = ExecuteMessages(polls[poll_id]),
                        !.poll_id = poll_id]

(* the stores are written at lines 306-310; the NoExecuteData return of    *)
(* line 324 comes after them                                               *)
execute_poll(poll_id) ==
    IF execute_poll_precheck(poll_id) # "Ok"
      THEN Unchanged(execute_poll_precheck(poll_id))
      ELSE LET written ==
                 [Unchanged("Ok") EXCEPT
                    !.indexer = IndexerMove("Passed", "Executed", poll_id),
                    !.polls = [polls EXCEPT ![poll_id].status = "Executed"]]
           IN IF polls[poll_id].execute_data = None
                THEN [written EXCEPT !.result = "NoExecuteData"]
                ELSE [written EXCEPT
                        !.messages = ExecuteMessages(polls[poll_id]),
                        !.poll_id = poll_id]

ExecutePoll(poll_id) ==
    /\ Apply(execute_poll(poll_id))
    /\ executions' = IF execute_poll(poll_id).result = "Ok"
                       THEN [executions EXCEPT ![poll_id] = @ + 1]
                       ELSE executions
    /\ UNCHANGED treasury_stores
    /\ UNCHANGED <<height, balance, accepted, refunds>>

----------------------------------------------------------------------------
(* cast_vote *)

DefaultTokenManager == [share |-> 0, locked_balance |-> <<>>]

(* bank_read(..).may_load(key)?.unwrap_or_default() *)
TokenManagerOf(sender) ==
    IF sender \in DOMAIN bank THEN bank[sender] ELSE DefaultTokenManager

(* mutant: a vote is refused for the height alone, whatever the poll's      *)
(* status                                                                  *)
cast_vote_precheck_AnyStatus(sender, poll_id, amount) ==
    IF poll_id = 0 \/ state.poll_count < poll_id THEN "PollNotFound"
    ELSE IF poll_id \notin DOMAIN polls THEN "NotFound"
    ELSE IF height > polls[poll_id].end_height
      THEN "PollNotInProgress"
    ELSE IF <<poll_id, sender>> \in DOMAIN voters THEN "AlreadyVoted"
    ELSE IF balance < state.total_deposit THEN "Overflow"
    ELSE IF state.total_share = 0 THEN "Panic"
    ELSE IF MultiplyRatio(TokenManagerOf(sender).share,
                          balance - state.total_deposit,
                          state.total_share) < amount
      THEN "InsufficientStaked"
    ELSE "Ok"

(* mutant: a voter's earlier vote on the poll is not looked up *)
cast_vote_precheck_NoAlreadyVoted(sender, poll_id, amount) ==
    IF poll_id = 0 \/ state.poll_count < poll_id THEN "PollNotFound"
    ELSE IF poll_id \notin DOMAIN polls THEN "NotFound"
    ELSE IF polls[poll_id].status # "InProgress"
            \/ height > polls[poll_id].end_height
      THEN "PollNotInProgress"
    ELSE IF balance < state.total_deposit THEN "Overflow"
    ELSE IF state.total_share = 0 THEN "Panic"
    ELSE IF MultiplyRatio(TokenManagerOf(sender).share,
                          balance - state.total_deposit,
                          state.total_share) < amount
      THEN "InsufficientStaked"
    ELSE "Ok"

(* mutant: an oracle balance below total_deposit is taken as a staked      *)
(* balance of zero                                                         *)
cast_vote_precheck_Clamped(sender, poll_id, amount) ==
    IF poll_id = 0 \/ state.poll_count < poll_id THEN "PollNotFound"
    ELSE IF poll_id \notin DOMAIN polls THEN "NotFound"
    ELSE IF polls[poll_id].status # "InProgress"
            \/ height > polls[poll_id].end_height
      THEN "PollNotInProgress"
    ELSE IF <<poll_id, sender>> \in DOMAIN voters THEN "AlreadyVoted"
    ELSE IF state.total_share = 0 THEN "Panic"
    ELSE IF MultiplyRatio(TokenManagerOf(sender).share,
                          IF balance < state.total_deposit THEN 0
                          ELSE balance - state.total_deposit,
                          state.total_share) < amount
      THEN "InsufficientStaked"
    ELSE "Ok"

(* mutant: the weight is not compared with the voter's convertible balance *)
cast_vote_precheck_NoStaked(sender, poll_id, amount) ==
    IF poll_id = 0 \/ state.poll_count < poll_id THEN "PollNotFound"
    ELSE IF poll_id \notin DOMAIN polls THEN "NotFound"
    ELSE IF polls[poll_id].status # "InProgress"
            \/ height > polls[poll_id].end_height
      THEN "PollNotInProgress"
    ELSE IF <<poll_id, sender>> \in DOMAIN voters THEN "AlreadyVoted"
    ELSE IF balance < state.total_deposit THEN "Overflow"
    ELSE IF state.total_share = 0 THEN "Panic"
    ELSE "Ok"

(* mutant: the voter's earlier vote is looked up before the poll's status *)
(* and window are checked                                                  *)
cast_vote_precheck_VotedFirst(sender, poll_id, amount) ==
    IF poll_id = 0 \/ state.poll_count < poll_id THEN "PollNotFound"
    ELSE IF poll_id \notin DOMAIN polls THEN "NotFound"
    ELSE IF <<poll_id, sender>> \in DOMAIN voters THEN "AlreadyVoted"
    ELSE IF polls[poll_id].status # "InProgress"
            \/ height > polls[poll_id].end_height
      THEN "PollNotInProgress"
    ELSE IF balance < state.total_deposit THEN "Overflow"
    ELSE IF state.total_share = 0 THEN "Panic"
    ELSE IF MultiplyRatio(TokenManagerOf(sender).share,
                          balance - state.total_deposit,
                          state.total_share) < amount
      THEN "InsufficientStaked"
    ELSE "Ok"

(* the checks of lines 355-390, in the order the code makes them *)
cast_vote_precheck(sender, poll_id, amount) ==
    IF poll_id = 0 \/ state.poll_count < poll_id THEN "PollNotFound"
    ELSE IF poll_id \notin DOMAIN polls THEN "NotFound"
    ELSE IF polls[poll_id].status # "InProgress"
            \/ height > polls[poll_id].end_height
      THEN "PollNotInProgress"
    ELSE IF <<poll_id, sender>> \in DOMAIN voters THEN "AlreadyVoted"
    ELSE IF balance < state.total_deposit THEN "Overflow"
    ELSE IF state.total_share = 0 THEN "Panic"
    ELSE IF MultiplyRatio(TokenManagerOf(sender).share,
                          balance - state.total_deposit,
                          state.total_share) < amount
      THEN "InsufficientStaked"
    ELSE "Ok"

(* mutant: the accumulator is set to the weight, not increased by it *)
UpdateTally_Overwrite(a_poll, vote, amount) ==
    IF vote = "yes"
      THEN [a_poll EXCEPT !.yes_votes = amount]
      ELSE [a_poll EXCEPT !.no_votes = amount]

(* mutant: every vote is added to the yes accumulator *)
UpdateTally_AlwaysYes(a_poll, vote, amount) ==
    [a_poll EXCEPT !.yes_votes = @ + amount]

(* lines 392-397 *)
UpdateTally(a_poll, vote, amount) ==
    IF vote = "yes"
      THEN [a_poll EXCEPT !.yes_votes = @ + amount]
      ELSE [a_poll EXCEPT !.no_votes = @ + amount]

(* mutant: every vote inside the snapshot window takes the snapshot anew *)
Snapshot_Overwrite(a_poll, total_balance) ==
    IF a_poll.end_height - height < config.snapshot_period
      THEN [a_poll EXCEPT !.staked_amount = Some(total_balance)]
      ELSE a_poll

(* lines 411-416 *)
Snapshot(a_poll, total_balance) ==
    IF a_poll.end_height - height < config.snapshot_period
       /\ a_poll.staked_amount = None
      THEN [a_poll EXCEPT !.staked_amount = Some(total_balance)]
      ELSE a_poll

cast_vote(sender, poll_id, vote, amount) ==
    IF cast_vote_precheck(sender, poll_id, amount) # "Ok"
      THEN Unchanged(cast_vote_precheck(sender, poll_id, amount))
      ELSE LET total_balance == balance - state.total_deposit
               vote_info == [vote |-> vote, balance |-> amount]
               token_manager == TokenManagerOf(sender)
           IN [Unchanged("Ok") EXCEPT
                 !.bank = (sender :>
                             [token_manager EXCEPT
                                !.locked_balance =
                                    Append(@, <<poll_id, vote_info>>)])
                          @@ bank,
                 !.voters = (<<poll_id, sender>> :> vote_info) @@ voters,
                 !.polls = [polls EXCEPT
                              ![poll_id] =
                                 Snapshot(UpdateTally(@, vote, amount),
                                          total_balance)],
                 !.poll_id = poll_id,
                 !.amount = amount,
                 !.voter = sender,
                 !.vote_option = vote]

CastVote(sender, poll_id, vote, amount) ==
    /\ Apply(cast_vote(sender, poll_id, vote, amount))
    /\ accepted' = IF cast_vote(sender, poll_id, vote, amount).result = "Ok"
                     THEN accepted (+)
                          SetToBag({[poll_id |-> poll_id, voter |-> sender,
                                     vote |-> vote, amount |-> amount]})
                     ELSE accepted
    /\ UNCHANGED treasury_stores
    /\ UNCHANGED <<height, balance, refunds, executions>>

----------------------------------------------------------------------------
(* The environment: blocks pass, and the token balance the contract holds  *)
(* moves as tokens are staked, withdrawn, deposited and refunded           *)

AdvanceHeight ==
    /\ height < MaxHeight
    /\ height' = height + 1
    /\ UNCHANGED treasury_stores
    /\ UNCHANGED <<config, state, polls, indexer, voters, bank, balance,
                   accepted, refunds, executions>>

OracleChange ==
    /\ \E b \in 0 .. MaxBalance :
          /\ b # balance
          /\ balance' = b
    /\ UNCHANGED treasury_stores
    /\ UNCHANGED <<config, state, polls, indexer, voters, bank, height,
                   accepted, refunds, executions>>

----------------------------------------------------------------------------
Next ==
    \/ RegisterContracts(TokenAddr)
    \/ \E sender \in HookSenders, hook \in {"CreatePoll", "Other"},
          cw20_msg \in Cw20Msgs :
          ReceiveCw20(sender, hook, cw20_msg)
    \/ \E sender \in Voters, poll_id \in PollIds, vote \in VoteOptions,
          amount \in Amounts :
          CastVote(sender, poll_id, vote, amount)
    \/ \E poll_id \in PollIds : EndPoll(poll_id)
    \/ \E poll_id \in PollIds : ExecutePoll(poll_id)
    \/ AdvanceHeight
    \/ OracleChange

Spec == Init /\ [][Next]_vars

(* The same contract, driven with the hook messages of OrderMsgs *)
NextOrder ==
    \/ RegisterContracts(TokenAddr)
    \/ \E sender \in HookSenders, hook \in {"CreatePoll", "Other"},
          cw20_msg \in OrderMsgs :
          ReceiveCw20(sender, hook, cw20_msg)
    \/ \E sender \in Voters, poll_id \in PollIds, vote \in VoteOptions,
          amount \in Amounts :
          CastVote(sender, poll_id, vote, amount)
    \/ \E poll_id \in PollIds : EndPoll(poll_id)
    \/ \E poll_id \in PollIds : ExecutePoll(poll_id)
    \/ AdvanceHeight
    \/ OracleChange

SpecOrder == Init /\ [][NextOrder]_vars

----------------------------------------------------------------------------
(* execute, the contract's entry point (lines 42-58): the match over       *)
(* ExecuteMsg has these four arms and no other                             *)

ExecuteMsgs ==
    {[variant |-> "Receive", hook |-> hook, cw20_msg |-> m, poll_id |-> 0,
      whale_token |-> ""] :
        hook \in {"CreatePoll", "Other"}, m \in Cw20Msgs}
    \cup {[variant |-> variant, hook |-> "", cw20_msg |-> None,
           poll_id |-> poll_id, whale_token |-> ""] :
             variant \in {"EndPoll", "ExecutePoll"}, poll_id \in PollIds}
    \cup {[variant |-> "RegisterContracts", hook |-> "", cw20_msg |-> None,
           poll_id |-> 0, whale_token |-> TokenAddr]}

execute(sender, msg) ==
    CASE msg.variant = "Receive" ->
            receive_cw20(sender, msg.hook, msg.cw20_msg)
      [] msg.variant = "EndPoll" -> end_poll(msg.poll_id)
      [] msg.variant = "ExecutePoll" -> execute_poll(msg.poll_id)
      [] msg.variant = "RegisterContracts" ->
            register_contracts(msg.whale_token)

(* The contract driven through execute alone: every handler execute        *)
(* dispatches to, and the environment                                      *)
NextExecute ==
    \/ RegisterContracts(TokenAddr)
    \/ \E sender \in HookSenders, hook \in {"CreatePoll", "Other"},
          cw20_msg \in Cw20Msgs :
          ReceiveCw20(sender, hook, cw20_msg)
    \/ \E poll_id \in PollIds : EndPoll(poll_id)
    \/ \E poll_id \in PollIds : ExecutePoll(poll_id)
    \/ AdvanceHeight
    \/ OracleChange

SpecExecute == Init /\ [][NextExecute]_vars

----------------------------------------------------------------------------
(* The same contract, with the votes of an account that holds no share and *)
(* submits a weight of 0 or 1                                              *)

ZeroVoters == {"carol"}
ZeroAmounts == {0, 1}

NextZero ==
    \/ RegisterContracts(TokenAddr)
    \/ \E sender \in HookSenders, hook \in {"CreatePoll", "Other"},
          cw20_msg \in Cw20Msgs :
          ReceiveCw20(sender, hook, cw20_msg)
    \/ \E sender \in ZeroVoters, poll_id \in PollIds, vote \in VoteOptions,
          amount \in ZeroAmounts :
          CastVote(sender, poll_id, vote, amount)
    \/ \E poll_id \in PollIds : EndPoll(poll_id)
    \/ \E poll_id \in PollIds : ExecutePoll(poll_id)
    \/ AdvanceHeight
    \/ OracleChange

SpecZero == Init /\ [][NextZero]_vars

(* The same contract with a closed token flow: the balance the token       *)
(* reports for the contract starts at what was staked, grows by the amount *)
(* a successful hook call carries and falls by the transfers End emits     *)

StakedBalances == {0, 2}

InitClosed ==
    /\ \E m \in InstantiateMsgs :
          config = [whale_token |-> "", quorum |-> m.quorum,
                    threshold |-> m.threshold,
                    voting_period |-> m.voting_period,
                    timelock_period |-> m.timelock_period,
                    expiration_period |-> m.expiration_period,
                    proposal_deposit |-> m.proposal_deposit,
                    snapshot_period |-> m.snapshot_period]
    /\ \E sh \in StakedShares :
          /\ bank = [v \in {a \in Voters : sh[a] > 0} |->
                       [share |-> sh[v], locked_balance |-> <<>>]]
          /\ state = [poll_count |-> 0,
                      total_share |-> sh["alice"] + sh["bob"],
                      total_deposit |-> 0]
    /\ polls = <<>>
    /\ indexer = [s \in Statuses |-> {}]
    /\ voters = <<>>
    /\ height = 0
    /\ balance \in StakedBalances
    /\ accepted = EmptyBag
    /\ refunds = [p \in 1 .. MaxPolls |-> 0]
    /\ executions = [p \in 1 .. MaxPolls |-> 0]
    /\ traders = <<>>
    /\ admin = Instantiator

(* the amounts of the transfers among the messages of a response *)
RECURSIVE TransferredOut(_)
TransferredOut(messages) ==
    IF messages = <<>> THEN 0
    ELSE (IF Head(messages).msg.type = "transfer"
            THEN Head(messages).msg.amount ELSE 0)
         + TransferredOut(Tail(messages))

(* the token's Send: the amount reaches the contract with the hook call,   *)
(* and stays only if the hook succeeds                                     *)
ReceiveCw20Closed(sender, hook, cw20_msg) ==
    /\ state.poll_count < MaxPolls
    /\ height + config.voting_period <= MaxHeight
    /\ Apply(receive_cw20(sender, hook, cw20_msg))
    /\ balance' = IF receive_cw20(sender, hook, cw20_msg).result = "Ok"
                    THEN balance + cw20_msg.amount
                    ELSE balance
    /\ UNCHANGED treasury_stores
    /\ UNCHANGED <<height, accepted, refunds, executions>>

(* End, and the token's Transfer of the refund it emits *)
EndPollClosed(poll_id) ==
    /\ Apply(end_poll(poll_id))
    /\ refunds' = IF poll_id \in DOMAIN refunds
                    THEN [refunds EXCEPT
                            ![poll_id] = @ + Len(end_poll(poll_id).messages)]
                    ELSE refunds
    /\ balance' = balance - TransferredOut(end_poll(poll_id).messages)
    /\ UNCHANGED treasury_stores
    /\ UNCHANGED <<height, accepted, executions>>

NextClosed ==
    \/ RegisterContracts(TokenAddr)
    \/ \E sender \in HookSenders, hook \in {"CreatePoll", "Other"},
          cw20_msg \in Cw20Msgs :
          ReceiveCw20Closed(sender, hook, cw20_msg)
    \/ \E sender \in Voters, poll_id \in PollIds, vote \in VoteOptions,
          amount \in Amounts :
          CastVote(sender, poll_id, vote, amount)
    \/ \E poll_id \in PollIds : EndPollClosed(poll_id)
    \/ \E poll_id \in PollIds : ExecutePoll(poll_id)
    \/ AdvanceHeight

SpecClosed == InitClosed /\ [][NextClosed]_vars

(* The contract under a fair schedule: blocks keep coming until MaxHeight, *)
(* and an End that would change the stores is eventually sent              *)

Fairness ==
    /\ WF_vars(AdvanceHeight)
    /\ \A poll_id \in 1 .. MaxPolls : WF_vars(EndPoll(poll_id))

SpecFair == Spec /\ Fairness

----------------------------------------------------------------------------
(* Treasury: instantiate sets ADMIN to the sender and the trader list to   *)
(* empty; add_trader, remove_trader and SetAdmin are the admin's,          *)
(* execute_action is for the listed traders.  UpdateAssets writes          *)
(* VAULT_ASSETS alone and is left out.                                     *)

(* deps.api.addr_canonicalize: a human address to its canonical form; two  *)
(* addresses have the same canonical form only if they are the same        *)
addr_canonicalize(human) == <<"canonical", human>>

(* Vec::contains *)
Contains(list, x) == \E i \in 1 .. Len(list) : list[i] = x

(* Vec::retain(|addr| *addr != x) *)
RECURSIVE RetainNot(_, _)
RetainNot(list, x) ==
    IF list = <<>> THEN <<>>
    ELSE IF Head(list) = x THEN RetainNot(Tail(list), x)
    ELSE <<Head(list)>> \o RetainNot(Tail(list), x)

TreasuryUnchanged(result) ==
    [result |-> result, traders |-> traders, admin |-> admin,
     messages |-> <<>>]

(* ADMIN.assert_admin(deps, &sender) *)
assert_admin(sender) == sender = admin

(* mutant: a listed address is pushed again *)
add_trader_Twice(sender, trader) ==
    IF ~assert_admin(sender) THEN TreasuryUnchanged("NotAdmin")
    ELSE [TreasuryUnchanged("Ok") EXCEPT
            !.traders = Append(traders, addr_canonicalize(trader))]

add_trader(sender, trader) ==
    IF ~assert_admin(sender) THEN TreasuryUnchanged("NotAdmin")
    ELSE IF Contains(traders, addr_canonicalize(trader))
      THEN TreasuryUnchanged("AlreadyInList")
    ELSE [TreasuryUnchanged("Ok") EXCEPT
            !.traders = Append(traders, addr_canonicalize(trader))]

remove_trader(sender, trader) ==
    IF ~assert_admin(sender) THEN TreasuryUnchanged("NotAdmin")
    ELSE IF ~Contains(traders, addr_canonicalize(trader))
      THEN TreasuryUnchanged("NotInList")
    ELSE [TreasuryUnchanged("Ok") EXCEPT
            !.traders = RetainNot(traders, addr_canonicalize(trader))]

execute_action(sender, msgs) ==
    IF ~Contains(traders, addr_canonicalize(sender))
      THEN TreasuryUnchanged("SenderNotWhitelisted")
    ELSE [TreasuryUnchanged("Ok") EXCEPT !.messages = msgs]

(* ExecuteMsg::SetAdmin: ADMIN.execute_update_admin(deps, info, Some(a)) *)
set_admin(sender, new_admin) ==
    IF ~assert_admin(sender) THEN TreasuryUnchanged("NotAdmin")
    ELSE [TreasuryUnchanged("Ok") EXCEPT !.admin = new_admin]

TreasuryApply(o) ==
    /\ traders' = o.traders
    /\ admin' = o.admin

AddTrader(sender, trader) ==
    /\ TreasuryApply(add_trader(sender, trader))
    /\ UNCHANGED <<stores, height, balance, accepted, refunds, executions>>

RemoveTrader(sender, trader) ==
    /\ TreasuryApply(remove_trader(sender, trader))
    /\ UNCHANGED <<stores, height, balance, accepted, refunds, executions>>

TraderAction(sender, msgs) ==
    /\ TreasuryApply(execute_action(sender, msgs))
    /\ UNCHANGED <<stores, height, balance, accepted, refunds, executions>>

SetAdmin(sender, new_admin) ==
    /\ TreasuryApply(set_admin(sender, new_admin))
    /\ UNCHANGED <<stores, height, balance, accepted, refunds, executions>>

NextTreasury ==
    \/ \E sender \in TreasurySenders, trader \in TraderAddrs :
          AddTrader(sender, trader)
    \/ \E sender \in TreasurySenders, trader \in TraderAddrs :
          RemoveTrader(sender, trader)
    \/ \E sender \in TreasurySenders, msgs \in MsgLists :
          TraderAction(sender, msgs)
    \/ \E sender \in TreasurySenders, new_admin \in AdminAddrs :
          SetAdmin(sender, new_admin)

SpecTreasury == Init /\ [][NextTreasury]_vars

----------------------------------------------------------------------------
(* Properties *)

(* the stores as an outcome leaves them are the stores it found *)
SameStores(o) ==
    /\ o.config = config
    /\ o.state = state
    /\ o.polls = polls
    /\ o.indexer = indexer
    /\ o.voters = voters
    /\ o.bank = bank

RECURSIVE SumAmounts(_)
SumAmounts(S) ==
    IF S = {} THEN 0
    ELSE LET r == CHOOSE x \in S : TRUE
         IN r.amount * CopiesIn(r, accepted) + SumAmounts(S \ {r})

(* the sum of the weights of the accepted votes for an option on a poll *)
AcceptedWeight(poll_id, vote) ==
    SumAmounts({r \in BagToSet(accepted) :
                  r.poll_id = poll_id /\ r.vote = vote})

RECURSIVE SumDeposits(_)
SumDeposits(S) ==
    IF S = {} THEN 0
    ELSE LET p == CHOOSE x \in S : TRUE
         IN polls[p].deposit_amount + SumDeposits(S \ {p})

(* C1: a poll's status only moves forward: a new poll is InProgress, and a *)
(* step that changes a poll's status takes it from InProgress to Rejected  *)
(* or Passed, or from Passed to Executed; no poll is ever removed.         *)
C1_StatusForward ==
    [][ /\ \A p \in DOMAIN polls :
             /\ p \in DOMAIN polls'
             /\ polls'[p].status # polls[p].status =>
                  \/ /\ polls[p].status = "InProgress"
                     /\ polls'[p].status \in {"Rejected", "Passed"}
                  \/ /\ polls[p].status = "Passed"
                     /\ polls'[p].status = "Executed"
        /\ \A p \in DOMAIN polls' \ DOMAIN polls :
             polls'[p].status = "InProgress" ]_vars

C1_Witness ==
    \E p, q \in DOMAIN polls :
       /\ polls[p].status = "Executed"
       /\ executions[p] = 1
       /\ polls[q].status = "Rejected"

(* C2: a (poll, voter) pair holds at most one VoterInfo: it is stored by   *)
(* the step in which that voter's vote on the poll is accepted, with the   *)
(* choice and weight of that vote, no pair has two accepted votes, and a   *)
(* stored VoterInfo is never changed or removed.                           *)
C2_VoterInfoOnce ==
    /\ [](\A r \in BagToSet(accepted) :
             /\ CopiesIn(r, accepted) = 1
             /\ <<r.poll_id, r.voter>> \in DOMAIN voters
             /\ voters[<<r.poll_id, r.voter>>] =
                   [vote |-> r.vote, balance |-> r.amount])
    /\ [][ /\ \A k \in DOMAIN voters :
                k \in DOMAIN voters' /\ voters'[k] = voters[k]
           /\ \A k \in DOMAIN voters' \ DOMAIN voters :
                accepted' = accepted (+)
                            SetToBag({[poll_id |-> k[1], voter |-> k[2],
                                       vote |-> voters'[k].vote,
                                       amount |-> voters'[k].balance]}) ]_vars

C2_Witness ==
    \E p \in DOMAIN polls :
       /\ polls[p].status = "Rejected"
       /\ <<p, "alice">> \in DOMAIN voters
       /\ <<p, "bob">> \in DOMAIN voters
       /\ voters[<<p, "alice">>].vote # voters[<<p, "bob">>].vote

(* C3 as claimed: a vote by a voter who already has a vote on the poll     *)
(* fails with AlreadyVoted whatever the height and the poll's status.      *)
C3_AlwaysAlreadyVoted ==
    \A k \in DOMAIN voters : \A vote \in VoteOptions, amount \in Amounts :
       cast_vote(k[2], k[1], vote, amount).result = "AlreadyVoted"

(* C3 amended: a vote by a voter who already has a vote on the poll always *)
(* fails and changes nothing: with AlreadyVoted while the poll is          *)
(* InProgress and the height is at most end_height, and with               *)
(* PollNotInProgress otherwise, whatever the choice and the weight.        *)
C3_SecondVoteFails ==
    \A k \in DOMAIN voters : \A vote \in VoteOptions, amount \in Amounts :
       LET o == cast_vote(k[2], k[1], vote, amount)
       IN /\ o.result =
                IF polls[k[1]].status = "InProgress"
                   /\ height <= polls[k[1]].end_height
                  THEN "AlreadyVoted"
                  ELSE "PollNotInProgress"
          /\ SameStores(o)
          /\ o.messages = <<>>

C3_Witness ==
    \E k \in DOMAIN voters :
       /\ polls[k[1]].status = "InProgress"
       /\ height = polls[k[1]].end_height
       /\ balance - state.total_deposit >= 3
       /\ cast_vote(k[2], k[1], "no", 1).result = "AlreadyVoted"

(* C4: for every poll, yes_votes is the sum of the weights of the accepted *)
(* Yes votes on it and no_votes the sum of the weights of the accepted No  *)
(* votes; yes_votes + no_votes never decreases.                            *)
C4_TallyIsSum ==
    /\ [](\A p \in DOMAIN polls :
             /\ polls[p].yes_votes = AcceptedWeight(p, "yes")
             /\ polls[p].no_votes = AcceptedWeight(p, "no"))
    /\ [][\A p \in DOMAIN polls :
             polls'[p].yes_votes + polls'[p].no_votes
                >= polls[p].yes_votes + polls[p].no_votes]_vars

C4_Witness ==
    \E p \in DOMAIN polls :
       /\ polls[p].yes_votes = 1
       /\ polls[p].no_votes = 1
       /\ polls[p].status = "Rejected"

(* C5: a poll id is in the status index bucket S exactly when the stored   *)
(* poll with that id has status S, so every poll is in exactly one bucket. *)
C5_IndexMatchesStatus ==
    \A s \in Statuses :
       indexer[s] = {p \in DOMAIN polls : polls[p].status = s}

C5_Witness ==
    \E p, q \in DOMAIN polls :
       /\ p \in indexer["Executed"]
       /\ q \in indexer["Rejected"] \cup indexer["Passed"]

(* C6: state.total_deposit is the sum of deposit_amount over the polls    *)
(* that are InProgress: a successful Create adds the deposit, a successful *)
(* End subtracts the poll's deposit whether or not it emits a refund, and  *)
(* Vote and Execute leave it as it is.                                     *)
C6_TotalDepositIsSum ==
    /\ state.total_deposit =
          SumDeposits({p \in DOMAIN polls : polls[p].status = "InProgress"})
    /\ \A sender \in HookSenders, m \in Cw20Msgs :
          LET o == receive_cw20(sender, "CreatePoll", m)
          IN o.state.total_deposit =
                IF o.result = "Ok" THEN state.total_deposit + m.amount
                                   ELSE state.total_deposit
    /\ \A p \in PollIds :
          /\ LET o == end_poll(p)
             IN o.state.total_deposit =
                   IF o.result = "Ok"
                     THEN state.total_deposit - polls[p].deposit_amount
                     ELSE state.total_deposit
          /\ execute_poll(p).state = state
          /\ \A v \in Voters, vote \in VoteOptions, amount \in Amounts :
                cast_vote(v, p, vote, amount).state = state

C6_Witness ==
    \E p, q \in DOMAIN polls :
       /\ polls[p].status = "Rejected"
       /\ polls[p].deposit_amount > 0
       /\ refunds[p] = 0
       /\ polls[q].status = "InProgress"
       /\ polls[q].deposit_amount > 0
       /\ state.total_deposit = polls[q].deposit_amount

(* C7: End on an InProgress poll at a height below end_height fails with   *)
(* PollVotingPeriod, and End on a poll that is not InProgress fails with   *)
(* PollNotInProgress; either way it emits no message and leaves every      *)
(* store as it was.                                                        *)
C7_EndRejected ==
    \A p \in DOMAIN polls :
       LET o == end_poll(p)
       IN /\ (polls[p].status = "InProgress" /\ height < polls[p].end_height)
                => /\ o.result = "PollVotingPeriod"
                   /\ SameStores(o)
                   /\ o.messages = <<>>
          /\ polls[p].status # "InProgress"
                => /\ o.result = "PollNotInProgress"
                   /\ SameStores(o)
                   /\ o.messages = <<>>

C7_Witness ==
    \E p, q \in DOMAIN polls :
       /\ polls[p].status = "Passed"
       /\ end_poll(p).result = "PollNotInProgress"
       /\ polls[q].status = "InProgress"
       /\ height < polls[q].end_height
       /\ end_poll(q).result = "PollVotingPeriod"

(* the tally of the claim, on whole numbers: the ratios are n / 100 *)
ExpectedTally(yes, no, reference, quorum, threshold) ==
    IF yes + no = 0 \/ 100 * (yes + no) < quorum * reference
      THEN <<"Rejected", "Quorum not reached">>
    ELSE IF 100 * yes > threshold * (yes + no)
      THEN <<"Passed", "">>
    ELSE <<"Rejected", "Threshold not reached">>

(* C8: a successful End sets the status from the votes, the reference      *)
(* weight and the configured ratios alone: Rejected, "Quorum not reached", *)
(* when yes + no = 0 or (yes + no) / reference < quorum; otherwise Passed  *)
(* when yes / (yes + no) > threshold, and Rejected, "Threshold not         *)
(* reached", when it is not.  70 yes, 30 no against 200 at quorum 0.4 and  *)
(* threshold 0.5 is Passed.                                                *)
C8_TallyOutcome ==
    /\ \A p \in DOMAIN polls :
          LET o == end_poll(p)
              e == ExpectedTally(polls[p].yes_votes, polls[p].no_votes,
                                 o.polls[p].total_balance_at_end_poll[1],
                                 config.quorum, config.threshold)
          IN o.result = "Ok" =>
                /\ o.polls[p].status = e[1]
                /\ o.rejected_reason = e[2]
                /\ o.passed = (e[1] = "Passed")
    /\ Tally(70, 30, DecimalFromRatio(70 + 30, 200), DecimalPercent(40),
             DecimalPercent(50)).status = "Passed"

(* a poll passed on a quorum ratio exactly equal to config.quorum *)
C8_Witness ==
    \E p \in DOMAIN polls :
       /\ polls[p].status = "Passed"
       /\ config.quorum > 0
       /\ 100 * (polls[p].yes_votes + polls[p].no_votes)
             = config.quorum * polls[p].total_balance_at_end_poll[1]

(* the poll was ended with its quorum reached, by the tallies it keeps *)
QuorumReached(a_poll) ==
    /\ a_poll.yes_votes + a_poll.no_votes # 0
    /\ 100 * (a_poll.yes_votes + a_poll.no_votes)
          >= config.quorum * a_poll.total_balance_at_end_poll[1]

(* C9: End emits one transfer of the poll's full deposit to its creator    *)
(* exactly when the poll is not rejected for quorum and the deposit is not *)
(* zero, and no message otherwise; Create and Vote emit no message and     *)
(* Execute no transfer; every poll has had at most one refund, and has had *)
(* one exactly when it was ended with its quorum reached and a deposit.    *)
C9_RefundOnce ==
    /\ \A p \in PollIds :
          LET o == end_poll(p)
          IN o.messages =
                IF o.result = "Ok"
                   /\ o.rejected_reason # "Quorum not reached"
                   /\ polls[p].deposit_amount # 0
                  THEN << TransferMsg(config.whale_token, polls[p].creator,
                                      polls[p].deposit_amount) >>
                  ELSE <<>>
    /\ \A sender \in HookSenders, hook \in {"CreatePoll", "Other"},
          m \in Cw20Msgs :
          receive_cw20(sender, hook, m).messages = <<>>
    /\ \A v \in Voters, p \in PollIds, vote \in VoteOptions,
          amount \in Amounts :
          cast_vote(v, p, vote, amount).messages = <<>>
    /\ \A p \in PollIds :
          \A i \in DOMAIN execute_poll(p).messages :
             execute_poll(p).messages[i].msg.type # "transfer"
    /\ \A p \in DOMAIN polls :
          refunds[p] =
             IF polls[p].status # "InProgress"
                /\ QuorumReached(polls[p])
                /\ polls[p].deposit_amount # 0
               THEN 1 ELSE 0

C9_Witness ==
    \E p, q \in DOMAIN polls :
       /\ polls[p].status = "Rejected"
       /\ refunds[p] = 1
       /\ polls[q].status = "Rejected"
       /\ polls[q].deposit_amount > 0
       /\ refunds[q] = 0

(* C10 as claimed: Execute on a Passed poll fails with TimelockNotExpired  *)
(* below end_height + timelock_period and succeeds at or above it.         *)
C10_ExecuteSucceeds ==
    \A p \in DOMAIN polls :
       polls[p].status = "Passed" =>
          execute_poll(p).result =
             IF height < polls[p].end_height + config.timelock_period
               THEN "TimelockNotExpired"
               ELSE "Ok"

(* C10 amended: Execute on a Passed poll fails with TimelockNotExpired     *)
(* below end_height + timelock_period and changes nothing; at or above it, *)
(* on a poll with an action list it succeeds and sets the status to        *)
(* Executed, and on a poll without one it fails with NoExecuteData; no     *)
(* poll has more than one successful Execute, and on an Executed poll      *)
(* Execute fails with PollNotPassed and changes nothing.                   *)
C10_ExecuteOnce ==
    \A p \in DOMAIN polls :
       LET o == execute_poll(p)
           unlocked == height >= polls[p].end_height + config.timelock_period
       IN /\ (polls[p].status = "Passed" /\ ~unlocked)
                => /\ o.result = "TimelockNotExpired"
                   /\ SameStores(o)
                   /\ o.messages = <<>>
          /\ (polls[p].status = "Passed" /\ unlocked
                /\ polls[p].execute_data # None)
                => /\ o.result = "Ok"
                   /\ o.polls[p].status = "Executed"
          /\ (polls[p].status = "Passed" /\ unlocked
                /\ polls[p].execute_data = None)
                => o.result = "NoExecuteData"
          /\ executions[p] <= 1
          /\ executions[p] = 1 => polls[p].status = "Executed"
          /\ polls[p].status = "Executed"
                => /\ o.result = "PollNotPassed"
                   /\ SameStores(o)
                   /\ o.messages = <<>>

C10_Witness ==
    \E p \in DOMAIN polls :
       /\ config.timelock_period > 0
       /\ executions[p] = 1
       /\ execute_poll(p).result = "PollNotPassed"

----------------------------------------------------------------------------
(* C11 as claimed: Execute on a Passed poll that has no action list fails   *)
(* with NoExecuteData and leaves the poll Passed and in the Passed index;  *)
(* a poll without an action list never has status Executed and is never in *)
(* the Executed index.                                                     *)
C11_NoActionsStaysPassed ==
    \A p \in DOMAIN polls :
       polls[p].execute_data = None =>
          /\ polls[p].status # "Executed"
          /\ p \notin indexer["Executed"]
          /\ (polls[p].status = "Passed"
                /\ height >= polls[p].end_height + config.timelock_period)
                => LET o == execute_poll(p)
                   IN /\ o.result = "NoExecuteData"
                      /\ o.polls[p].status = "Passed"
                      /\ p \in o.indexer["Passed"]
                      /\ p \notin o.indexer["Executed"]

(* the contracts of a dispatch sequence, in the order of dispatch *)
ContractsOf(messages) ==
    [i \in 1 .. Len(messages) |-> messages[i].contract_addr]

(* C12: a successful Execute emits one dispatch message per entry of the   *)
(* poll's action list, each to the entry's contract with the entry's       *)
(* message and no funds, in ascending order of the entries' order field,   *)
(* entries of equal order in the order the list had them; orders 3, 1, 2   *)
(* are dispatched as 1, 2, 3.                                              *)
C12_DispatchOrder ==
    /\ \A p \in DOMAIN polls :
          LET o == execute_poll(p)
              data == polls[p].execute_data
          IN o.result = "Ok" =>
                /\ data # None
                /\ Len(o.messages) = Len(data[1])
                /\ \E pi \in Permutations(1 .. Len(data[1])) :
                      /\ \A i \in 1 .. Len(data[1]) :
                            /\ o.messages[i].contract_addr
                                  = data[1][pi[i]].contract
                            /\ o.messages[i].msg.type = "execute"
                            /\ o.messages[i].msg.data = data[1][pi[i]].msg
                            /\ o.messages[i].funds = <<>>
                      /\ \A i, j \in 1 .. Len(data[1]) :
                            i < j =>
                               \/ data[1][pi[i]].order < data[1][pi[j]].order
                               \/ /\ data[1][pi[i]].order
                                        = data[1][pi[j]].order
                                  /\ pi[i] < pi[j]
    /\ ContractsOf(ExecuteMessages([execute_data |-> Some(Actions312)]))
          = <<"c2", "c3", "c1">>

(* a poll whose action list has entries of equal order has been executed *)
C12_Witness ==
    \E p \in DOMAIN polls :
       /\ executions[p] = 1
       /\ polls[p].status = "Executed"
       /\ polls[p].execute_data = Some(Actions2121)

(* the step stores a vote on poll p that was not there before *)
VoteAcceptedOn(p) ==
    \E k \in DOMAIN voters' \ DOMAIN voters : k[1] = p

(* C13: a poll is created with staked_amount None; a step changes a poll's *)
(* staked_amount only when it is None and the step is an accepted vote on  *)
(* the poll with end_height - height < snapshot_period, and every such     *)
(* vote sets it to the oracle balance less total_deposit as they are at    *)
(* that vote; once set it is never changed, whatever the balance and       *)
(* total_deposit become.                                                   *)
C13_SnapshotOnce ==
    [][ /\ \A p \in DOMAIN polls' \ DOMAIN polls :
             polls'[p].staked_amount = None
        /\ \A p \in DOMAIN polls :
             LET inWindow == polls[p].end_height - height
                                < config.snapshot_period
             IN IF polls[p].staked_amount = None /\ VoteAcceptedOn(p)
                   /\ inWindow
                  THEN polls'[p].staked_amount
                          = Some(balance - state.total_deposit)
                  ELSE polls'[p].staked_amount = polls[p].staked_amount
      ]_vars

(* both voters have voted on a poll whose snapshot is not the live value *)
C13_Witness ==
    \E p \in DOMAIN polls :
       /\ polls[p].status = "InProgress"
       /\ polls[p].staked_amount = Some(2)
       /\ <<p, "alice">> \in DOMAIN voters
       /\ <<p, "bob">> \in DOMAIN voters
       /\ balance - state.total_deposit = 3

(* C14: Create with a deposit below config.proposal_deposit fails with     *)
(* InsufficientProposalDeposit carrying config.proposal_deposit and        *)
(* changes nothing; any other Create stores a new poll under the id        *)
(* poll_count + 1, InProgress, with zero yes and no votes, no snapshot and *)
(* end_height = height + voting_period, adds the id to the InProgress      *)
(* index, adds 1 to poll_count and the deposit to total_deposit, and       *)
(* leaves everything else as it was.                                       *)
C14_CreateEffect ==
    \A m \in Cw20Msgs :
       LET o == create_poll(m.sender, m.amount, m.execute_msgs)
           id == state.poll_count + 1
       IN IF m.amount < config.proposal_deposit
            THEN /\ o.result = "InsufficientProposalDeposit"
                 /\ o.required = config.proposal_deposit
                 /\ SameStores(o)
                 /\ o.messages = <<>>
            ELSE /\ o.result = "Ok"
                 /\ o.poll_id = id
                 /\ id \notin DOMAIN polls
                 /\ DOMAIN o.polls = DOMAIN polls \cup {id}
                 /\ \A q \in DOMAIN polls : o.polls[q] = polls[q]
                 /\ o.polls[id].id = id
                 /\ o.polls[id].creator = m.sender
                 /\ o.polls[id].status = "InProgress"
                 /\ o.polls[id].yes_votes = 0
                 /\ o.polls[id].no_votes = 0
                 /\ o.polls[id].staked_amount = None
                 /\ o.polls[id].total_balance_at_end_poll = None
                 /\ o.polls[id].deposit_amount = m.amount
                 /\ o.polls[id].end_height = height + config.voting_period
                 /\ o.indexer = [indexer EXCEPT
                                   !["InProgress"] = @ \cup {id}]
                 /\ o.state = [state EXCEPT
                                 !.poll_count = @ + 1,
                                 !.total_deposit = @ + m.amount]
                 /\ o.config = config
                 /\ o.voters = voters
                 /\ o.bank = bank

(* a second poll was created with a deposit above the required minimum,    *)
(* and a Create below the minimum is refused                               *)
C14_Witness ==
    /\ config.proposal_deposit = 1
    /\ state.poll_count = 2
    /\ polls[2].deposit_amount = 2
    /\ polls[2].end_height = 2
    /\ polls[1].deposit_amount = 1
    /\ create_poll("alice", 0, None).result = "InsufficientProposalDeposit"

(* C15: the ids of the stored polls are exactly 1 .. poll_count, each poll *)
(* stored under its own id; poll_count never decreases and no poll is ever *)
(* removed or given another id; a successful Create uses the id            *)
(* poll_count + 1, which no poll has, and a Create that fails leaves       *)
(* poll_count and the set of ids as they were.                             *)
C15_PollIds ==
    /\ [](/\ DOMAIN polls = 1 .. state.poll_count
          /\ \A p \in DOMAIN polls : polls[p].id = p
          /\ \A sender \in HookSenders, hook \in {"CreatePoll", "Other"},
                m \in Cw20Msgs :
                LET o == receive_cw20(sender, hook, m)
                IN IF o.result = "Ok"
                     THEN /\ o.poll_id = state.poll_count + 1
                          /\ o.poll_id \notin DOMAIN polls
                          /\ DOMAIN o.polls = DOMAIN polls \cup {o.poll_id}
                          /\ o.state.poll_count = o.poll_id
                     ELSE /\ o.state.poll_count = state.poll_count
                          /\ DOMAIN o.polls = DOMAIN polls)
    /\ [][ /\ state.poll_count' >= state.poll_count
           /\ \A p \in DOMAIN polls :
                /\ p \in DOMAIN polls'
                /\ polls'[p].id = polls[p].id ]_vars

(* two polls were created, a Create by another sender than the token is    *)
(* refused and so is one below the required deposit                        *)
C15_Witness ==
    /\ state.poll_count = 2
    /\ polls[1].status # "InProgress"
    /\ receive_cw20("alice", "CreatePoll",
                    [sender |-> "alice", amount |-> 2,
                     execute_msgs |-> None]).result = "Unauthorized"
    /\ receive_cw20("whale", "CreatePoll",
                    [sender |-> "alice", amount |-> 0,
                     execute_msgs |-> None]).result
          = "InsufficientProposalDeposit"

(* the share of the voter as the bank store has it *)
ShareOf(v) == IF v \in DOMAIN bank THEN bank[v].share ELSE 0

(* C16: Vote reports the first failing check of a fixed order: PollNotFound *)
(* exactly when poll_id = 0 or poll_id > poll_count; else PollNotInProgress *)
(* exactly when the poll is not InProgress or height > end_height; else     *)
(* AlreadyVoted exactly when the voter has a VoterInfo on the poll; and     *)
(* InsufficientStaked only when these three pass, which it is whenever the  *)
(* convertible balance share * (balance - total_deposit) / total_share is   *)
(* defined and below the weight.  At height = end_height an InProgress poll *)
(* passes the window check.                                                 *)
C16_VoteCheckOrder ==
    \A v \in Voters, p \in PollIds, vote \in VoteOptions,
       amount \in Amounts :
       LET o == cast_vote(v, p, vote, amount)
           notFound == p = 0 \/ p > state.poll_count
           closed == \/ polls[p].status # "InProgress"
                     \/ height > polls[p].end_height
           voted == <<p, v>> \in DOMAIN voters
           defined == state.total_share # 0 /\ balance >= state.total_deposit
           convertible == (ShareOf(v) * (balance - state.total_deposit))
                             \div state.total_share
       IN /\ (o.result = "PollNotFound") = notFound
          /\ ~notFound =>
                /\ (o.result = "PollNotInProgress") = closed
                /\ ~closed =>
                      /\ (o.result = "AlreadyVoted") = voted
                      /\ (~voted /\ defined) =>
                            o.result = IF convertible < amount
                                         THEN "InsufficientStaked"
                                         ELSE "Ok"
                      /\ o.result \in {"InsufficientStaked", "Ok"}
                            => ~voted /\ defined
                /\ (polls[p].status = "InProgress"
                      /\ height = polls[p].end_height) => ~closed

(* a voter of an ended poll votes on it again: both the window check and   *)
(* the double-vote check fail, the first is reported; on another poll at   *)
(* its end_height a vote passes the window check                           *)
C16_Witness ==
    \E p, q \in DOMAIN polls :
       /\ polls[p].status # "InProgress"
       /\ <<p, "alice">> \in DOMAIN voters
       /\ cast_vote("alice", p, "yes", 1).result = "PollNotInProgress"
       /\ polls[q].status = "InProgress"
       /\ height = polls[q].end_height
       /\ <<q, "alice">> \in DOMAIN voters
       /\ cast_vote("alice", q, "yes", 1).result = "AlreadyVoted"
       /\ cast_vote("bob", q, "yes", 1).result = "InsufficientStaked"
       /\ cast_vote("bob", 0, "yes", 1).result = "PollNotFound"

(* C17 as claimed: a vote that passes the poll, window and double-vote     *)
(* checks, made while the oracle balance covers total_deposit, is accepted *)
(* exactly when floor(share * (balance - total_deposit) / total_share) is  *)
(* at least the weight, and fails with InsufficientStaked otherwise, for   *)
(* every total_share; with total_share = 0 nobody holds a share and the    *)
(* convertible balance is 0.                                               *)
C17_AcceptedIffConvertible ==
    \A v \in Voters, p \in DOMAIN polls, vote \in VoteOptions,
       amount \in Amounts :
       LET o == cast_vote(v, p, vote, amount)
           convertible ==
              IF state.total_share = 0 THEN 0
              ELSE (ShareOf(v) * (balance - state.total_deposit))
                      \div state.total_share
       IN (/\ polls[p].status = "InProgress"
           /\ height <= polls[p].end_height
           /\ <<p, v>> \notin DOMAIN voters
           /\ balance >= state.total_deposit)
             => o.result = IF convertible >= amount
                             THEN "Ok"
                             ELSE "InsufficientStaked"

(* C18 as claimed: a Create, Vote, End or Execute call that returns an     *)
(* error leaves Config, State, the polls, the status indexes, the          *)
(* VoterInfo records and the TokenManager ledgers as they were.            *)
C18_ErrorsChangeNothing ==
    /\ \A sender \in HookSenders, hook \in {"CreatePoll", "Other"},
          m \in Cw20Msgs :
          LET o == receive_cw20(sender, hook, m)
          IN o.result # "Ok" => SameStores(o)
    /\ \A v \in Voters, p \in PollIds, vote \in VoteOptions,
          amount \in Amounts :
          LET o == cast_vote(v, p, vote, amount)
          IN o.result # "Ok" => SameStores(o)
    /\ \A p \in PollIds :
          LET o == end_poll(p)
          IN o.result # "Ok" => SameStores(o)
    /\ \A p \in PollIds :
          LET o == execute_poll(p)
          IN o.result # "Ok" => SameStores(o)

(* C19 as claimed: End of a poll whose voting period is over, with         *)
(* total_share nonzero and a reference weight of zero (a snapshot of 0, or *)
(* no snapshot and an oracle balance equal to total_deposit), succeeds,    *)
(* and with config.quorum > 0 rejects the poll with "Quorum not reached".  *)
C19_ZeroReferenceCompletes ==
    \A p \in DOMAIN polls :
       (/\ polls[p].status = "InProgress"
        /\ height >= polls[p].end_height
        /\ state.total_share # 0
        /\ \/ polls[p].staked_amount = Some(0)
           \/ /\ polls[p].staked_amount = None
              /\ balance = state.total_deposit)
          => LET o == end_poll(p)
             IN /\ o.result = "Ok"
                /\ config.quorum > 0 =>
                      /\ o.polls[p].status = "Rejected"
                      /\ o.rejected_reason = "Quorum not reached"

(* C20: a successful End sets total_balance_at_end_poll to the reference   *)
(* weight it used: 0 when total_share is 0, else the poll's staked_amount  *)
(* when it has one, else the oracle balance less total_deposit as they are *)
(* at that End.  The field is None on every InProgress poll and set on     *)
(* every other; a step sets it only when it takes the poll out of          *)
(* InProgress, and once set it never changes.                              *)
C20_BalanceAtEnd ==
    /\ [](/\ \A p \in DOMAIN polls :
                (polls[p].total_balance_at_end_poll = None)
                   = (polls[p].status = "InProgress")
          /\ \A p \in PollIds :
                LET o == end_poll(p)
                IN o.result = "Ok" =>
                      o.polls[p].total_balance_at_end_poll =
                         Some(IF state.total_share = 0 THEN 0
                              ELSE IF polls[p].staked_amount # None
                                THEN polls[p].staked_amount[1]
                              ELSE balance - state.total_deposit))
    /\ [][\A p \in DOMAIN polls :
             IF polls[p].total_balance_at_end_poll # None
               THEN polls'[p].total_balance_at_end_poll
                       = polls[p].total_balance_at_end_poll
               ELSE polls'[p].total_balance_at_end_poll # None
                       => /\ polls[p].status = "InProgress"
                          /\ polls'[p].status \in {"Passed", "Rejected"}
          ]_vars

(* one poll was ended on its snapshot while the live value was another,    *)
(* one on the live value                                                   *)
C20_Witness ==
    \E p, q \in DOMAIN polls :
       /\ polls[p].status = "Passed"
       /\ polls[p].staked_amount = Some(2)
       /\ polls[p].total_balance_at_end_poll = Some(2)
       /\ polls[q].status = "Rejected"
       /\ polls[q].staked_amount = None
       /\ polls[q].total_balance_at_end_poll = Some(3)

(* the votes on poll p that the step adds to the accepted votes *)
NewlyAccepted(p) ==
    {r \in BagToSet(accepted') :
        r.poll_id = p /\ CopiesIn(r, accepted') > CopiesIn(r, accepted)}

(* C21 as claimed: the quorum ratio End computes never exceeds 1: whenever  *)
(* End succeeds, yes_votes + no_votes is at most the reference weight it   *)
(* is divided by.                                                          *)
C21_QuorumAtMostOne ==
    \A p \in DOMAIN polls :
       LET o == end_poll(p)
       IN o.result = "Ok" =>
             polls[p].yes_votes + polls[p].no_votes
                <= o.polls[p].total_balance_at_end_poll[1]

(* C21 amended: yes_votes + no_votes of a poll grows only by an accepted   *)
(* vote on it, and then by a weight that is at most the voter's            *)
(* convertible balance floor(share * (balance - total_deposit) /           *)
(* total_share) at that vote, hence at most the staked balance             *)
(* (balance - total_deposit) eligible at that vote.                        *)
C21_VoteWithinEligible ==
    [][\A p \in DOMAIN polls :
          LET before == polls[p].yes_votes + polls[p].no_votes
              after == polls'[p].yes_votes + polls'[p].no_votes
          IN IF NewlyAccepted(p) = {}
               THEN after = before
               ELSE \E r \in NewlyAccepted(p) :
                       /\ NewlyAccepted(p) = {r}
                       /\ after = before + r.amount
                       /\ state.total_share # 0
                       /\ balance >= state.total_deposit
                       /\ r.amount <=
                             (ShareOf(r.voter)
                                * (balance - state.total_deposit))
                                \div state.total_share
                       /\ r.amount <= balance - state.total_deposit
      ]_vars

(* a poll was ended against a reference weight smaller than its tally: its *)
(* votes were accepted at a larger balance than the one End found          *)
C21_Witness ==
    \E p \in DOMAIN polls :
       /\ polls[p].status # "InProgress"
       /\ polls[p].total_balance_at_end_poll[1] > 0
       /\ polls[p].yes_votes + polls[p].no_votes
             > polls[p].total_balance_at_end_poll[1]

(* the weight a vote adds to the accumulator of an option *)
WeightFor(option, vote, amount) == IF vote = option THEN amount ELSE 0

(* C22: votes accumulate commutatively.  Take two votes by different       *)
(* voters on the same poll, each acceptable as things are; when a step     *)
(* accepts the first and the second is then accepted too, at the same      *)
(* height and oracle balance, the poll ends up with the yes_votes,         *)
(* no_votes and staked_amount given by an expression that does not depend  *)
(* on which of the two came first: the tallies plus both weights, and the  *)
(* snapshot the poll had or, if it had none and the window is open, the    *)
(* balance less total_deposit.  Either order therefore gives the same poll *)
(* and the same End outcome.                                               *)
C22_VotesCommute ==
    [][accepted' # accepted =>
       \A p \in DOMAIN polls, v1, v2 \in Voters, c1, c2 \in VoteOptions,
          a1, a2 \in Amounts :
          (/\ v1 # v2
           /\ accepted' = accepted (+)
                             SetToBag({[poll_id |-> p, voter |-> v1,
                                        vote |-> c1, amount |-> a1]})
           /\ cast_vote(v1, p, c1, a1).result = "Ok"
           /\ cast_vote(v2, p, c2, a2).result = "Ok"
           /\ (cast_vote(v2, p, c2, a2).result)' = "Ok")
             => LET final == (cast_vote(v2, p, c2, a2).polls[p])'
                IN /\ height' = height /\ balance' = balance
                   /\ final.yes_votes =
                         polls[p].yes_votes + WeightFor("yes", c1, a1)
                                            + WeightFor("yes", c2, a2)
                   /\ final.no_votes =
                         polls[p].no_votes + WeightFor("no", c1, a1)
                                           + WeightFor("no", c2, a2)
                   /\ final.staked_amount =
                         IF polls[p].staked_amount = None
                            /\ polls[p].end_height - height
                                  < config.snapshot_period
                           THEN Some(balance - state.total_deposit)
                           ELSE polls[p].staked_amount
                   /\ final.status = polls[p].status
                   /\ final.end_height = polls[p].end_height
      ]_vars

(* both voters have voted on a poll, one for and one against, inside the   *)
(* snapshot window                                                         *)
C22_Witness ==
    \E p \in DOMAIN polls :
       /\ polls[p].status = "InProgress"
       /\ polls[p].staked_amount = Some(3)
       /\ polls[p].yes_votes = 1
       /\ polls[p].no_votes = 1
       /\ <<p, "alice">> \in DOMAIN voters
       /\ <<p, "bob">> \in DOMAIN voters

(* C23: with an oracle balance below total_deposit, a Vote that passes the *)
(* poll, window and double-vote checks fails with the underflow error for  *)
(* every total_share, and an End that passes its status and height checks  *)
(* fails with it when total_share is nonzero and the poll has no snapshot; *)
(* an End of a poll whose deposit exceeds total_deposit fails with it too. *)
(* None of them changes a store or emits a message.                        *)
C23_UnderflowPropagates ==
    /\ \A v \in Voters, p \in DOMAIN polls, vote \in VoteOptions,
          amount \in Amounts :
          (/\ balance < state.total_deposit
           /\ polls[p].status = "InProgress"
           /\ height <= polls[p].end_height
           /\ <<p, v>> \notin DOMAIN voters)
             => LET o == cast_vote(v, p, vote, amount)
                IN /\ o.result = "Overflow"
                   /\ SameStores(o)
                   /\ o.messages = <<>>
    /\ \A p \in DOMAIN polls :
          (/\ polls[p].status = "InProgress"
           /\ height >= polls[p].end_height
           /\ \/ /\ balance < state.total_deposit
                 /\ state.total_share # 0
                 /\ polls[p].staked_amount = None
              \/ /\ polls[p].deposit_amount > state.total_deposit
                 /\ StakedWeightAtEnd(polls[p]).result = "Ok")
             => LET o == end_poll(p)
                IN /\ o.result = "Overflow"
                   /\ SameStores(o)
                   /\ o.messages = <<>>

(* a poll past its end_height cannot be ended, and a vote on another poll  *)
(* cannot be cast, because the oracle balance is below total_deposit       *)
C23_Witness ==
    \E p, q \in DOMAIN polls :
       /\ balance < state.total_deposit
       /\ state.total_share # 0
       /\ polls[p].status = "InProgress"
       /\ height >= polls[p].end_height
       /\ polls[p].staked_amount = None
       /\ end_poll(p).result = "Overflow"
       /\ polls[q].status = "InProgress"
       /\ height <= polls[q].end_height
       /\ cast_vote("bob", q, "yes", 1).result = "Overflow"

(* C24: the receive hook fails with Unauthorized and changes nothing when  *)
(* its caller is not the registered token, whatever the payload; called by *)
(* the token with a payload that is not a CreatePoll message it fails with *)
(* DataShouldBeGiven and changes nothing; and a poll is only ever created  *)
(* by a step in which the token is registered.                             *)
C24_HookAuthorized ==
    /\ [](\A sender \in HookSenders, hook \in {"CreatePoll", "Other"},
             m \in Cw20Msgs :
             LET o == receive_cw20(sender, hook, m)
             IN /\ sender # config.whale_token =>
                      /\ o.result = "Unauthorized"
                      /\ SameStores(o)
                      /\ o.messages = <<>>
                /\ (sender = config.whale_token /\ hook # "CreatePoll") =>
                      /\ o.result = "DataShouldBeGiven"
                      /\ SameStores(o)
                      /\ o.messages = <<>>
                /\ (sender = config.whale_token /\ hook = "CreatePoll") =>
                      o.result \in {"Ok", "InsufficientProposalDeposit"})
    /\ [][DOMAIN polls' # DOMAIN polls => config.whale_token = TokenAddr]_vars

(* a poll exists, a hook call by another sender is refused and so is the   *)
(* token's call with another payload                                       *)
C24_Witness ==
    /\ state.poll_count = 1
    /\ config.whale_token = "whale"
    /\ receive_cw20("alice", "CreatePoll",
                    [sender |-> "bob", amount |-> 1,
                     execute_msgs |-> Some(Actions21)]).result
          = "Unauthorized"
    /\ receive_cw20("whale", "Other",
                    [sender |-> "bob", amount |-> 1,
                     execute_msgs |-> Some(Actions21)]).result
          = "DataShouldBeGiven"

(* the fields of a poll that its creation fixes *)
FixedFields(a_poll) ==
    <<a_poll.id, a_poll.end_height, a_poll.deposit_amount, a_poll.creator,
      a_poll.execute_data>>

(* C25: no step changes the end_height, deposit_amount, creator or action  *)
(* list of a poll; a Vote, End or Execute on poll p, whatever it returns,  *)
(* leaves these fields of p and the whole record of every other poll as    *)
(* they were, and adds or removes no poll.                                 *)
C25_FixedAtCreation ==
    /\ [](\A p \in PollIds :
             /\ \A o \in {end_poll(p), execute_poll(p)}
                       \cup {cast_vote(v, p, vote, amount) :
                               v \in Voters, vote \in VoteOptions,
                               amount \in Amounts} :
                   /\ DOMAIN o.polls = DOMAIN polls
                   /\ \A q \in DOMAIN polls :
                         /\ FixedFields(o.polls[q]) = FixedFields(polls[q])
                         /\ q # p => o.polls[q] = polls[q])
    /\ [][\A q \in DOMAIN polls :
             FixedFields(polls'[q]) = FixedFields(polls[q])]_vars

(* one poll was voted on, ended and executed while another was in progress *)
C25_Witness ==
    \E p, q \in DOMAIN polls :
       /\ executions[p] = 1
       /\ polls[p].yes_votes > 0
       /\ polls[p].execute_data # None
       /\ polls[p].deposit_amount > 0
       /\ polls[q].status = "InProgress"

(* C26 as claimed: Vote is reachable through execute: whenever a vote      *)
(* would be accepted, some message sent to execute by the voter records    *)
(* it, leaving the stores as cast_vote leaves them.                        *)
C26_VoteThroughExecute ==
    \A v \in Voters, p \in DOMAIN polls, vote \in VoteOptions,
       amount \in Amounts :
       cast_vote(v, p, vote, amount).result = "Ok" =>
          \E msg \in ExecuteMsgs :
             LET o == execute(v, msg)
             IN /\ o.result = "Ok"
                /\ <<p, v>> \in DOMAIN o.voters
                /\ o.polls = cast_vote(v, p, vote, amount).polls

(* what holds instead when the contract is driven through execute alone:   *)
(* no vote is ever recorded, no message to execute records one, and no     *)
(* poll is ever Passed or Executed                                         *)
ExecuteNeverVotes ==
    /\ voters = <<>>
    /\ \A p \in DOMAIN polls :
          /\ polls[p].yes_votes + polls[p].no_votes = 0
          /\ polls[p].status \in {"InProgress", "Rejected"}
    /\ \A sender \in HookSenders \cup Voters, msg \in ExecuteMsgs :
          execute(sender, msg).voters = voters

(* C27 as claimed: every account that has a VoterInfo on a poll holds a    *)
(* share above zero, and a vote by an account with no share is refused     *)
(* whatever its weight.                                                    *)
C27_ZeroShareNeverVotes ==
    /\ \A k \in DOMAIN voters : ShareOf(k[2]) > 0
    /\ \A v \in ZeroVoters, p \in PollIds, vote \in VoteOptions,
          amount \in ZeroAmounts :
          ShareOf(v) = 0 => cast_vote(v, p, vote, amount).result # "Ok"

(* the tallies a poll is decided on *)
Tallies(a_poll) ==
    <<a_poll.yes_votes, a_poll.no_votes, a_poll.staked_amount>>

(* C28: a poll that has left InProgress never returns to it and keeps its  *)
(* yes_votes, no_votes and staked_amount in every later step; every Vote   *)
(* on it, also at height = end_height where the voting window is still     *)
(* open, is refused with PollNotInProgress and changes nothing, and so is  *)
(* a second End.                                                           *)
C28_TalliesKept ==
    /\ [](\A p \in DOMAIN polls :
             polls[p].status # "InProgress" =>
                /\ \A v \in Voters, vote \in VoteOptions, amount \in Amounts :
                      LET o == cast_vote(v, p, vote, amount)
                      IN /\ o.result = "PollNotInProgress"
                         /\ SameStores(o)
                /\ end_poll(p).result = "PollNotInProgress"
                /\ SameStores(end_poll(p))
                /\ Tallies(execute_poll(p).polls[p]) = Tallies(polls[p]))
    /\ [][\A p \in DOMAIN polls :
             polls[p].status # "InProgress" =>
                /\ polls'[p].status # "InProgress"
                /\ Tallies(polls'[p]) = Tallies(polls[p])]_vars

(* a poll was ended at its end_height on alice's vote; the height is still *)
(* end_height and bob, who has not voted on it and holds enough stake, is  *)
(* refused                                                                 *)
C28_Witness ==
    \E p \in DOMAIN polls :
       /\ polls[p].status # "InProgress"
       /\ height = polls[p].end_height
       /\ polls[p].yes_votes + polls[p].no_votes > 0
       /\ <<p, "bob">> \notin DOMAIN voters
       /\ state.total_share # 0
       /\ balance >= state.total_deposit
       /\ MultiplyRatio(ShareOf("bob"), balance - state.total_deposit,
                        state.total_share) >= 1
       /\ cast_vote("bob", p, "yes", 1).result = "PollNotInProgress"

(* the poll was decided by End, at or after its end_height, and if it was  *)
(* Passed or Executed its votes were above the threshold                   *)
DecidedByEnd(a_poll) ==
    /\ height >= a_poll.end_height
    /\ a_poll.total_balance_at_end_poll # None
    /\ a_poll.status \in {"Passed", "Executed"} =>
          /\ a_poll.yes_votes + a_poll.no_votes > 0
          /\ 100 * a_poll.yes_votes
                > config.threshold * (a_poll.yes_votes + a_poll.no_votes)

(* the step that makes a poll Executed finds it Passed *)
ExecutedFromPassed ==
    \A p \in DOMAIN polls :
       (polls'[p].status = "Executed" /\ polls[p].status # "Executed")
          => polls[p].status = "Passed"

(* C29 as claimed: every Executed poll has an action list, was Passed in   *)
(* the step before it became Executed, has yes_votes + no_votes > 0 with   *)
(* yes / (yes + no) above the threshold, and became Executed at a height   *)
(* >= end_height + timelock_period; every Passed or Rejected poll was      *)
(* ended at a height >= end_height.                                        *)
C29_ExecutedWasDecided ==
    /\ [](\A p \in DOMAIN polls :
             /\ polls[p].status = "Executed" =>
                   /\ polls[p].execute_data # None
                   /\ DecidedByEnd(polls[p])
                   /\ height >= polls[p].end_height + config.timelock_period
             /\ polls[p].status \in {"Passed", "Rejected"} =>
                   DecidedByEnd(polls[p]))
    /\ [][ExecutedFromPassed]_vars

(* what holds of the claim: all of it but the action list of an Executed   *)
(* poll                                                                    *)
ExecutedWasDecidedButData ==
    /\ [](\A p \in DOMAIN polls :
             /\ polls[p].status = "Executed" =>
                   /\ DecidedByEnd(polls[p])
                   /\ height >= polls[p].end_height + config.timelock_period
             /\ polls[p].status \in {"Passed", "Rejected"} =>
                   DecidedByEnd(polls[p]))
    /\ [][ExecutedFromPassed]_vars

(* the addresses a caller may ask to register *)
RegisterArgs == {TokenAddr} \cup Voters

(* C30: RegisterContracts succeeds exactly while config.whale_token is     *)
(* empty, and then sets it to the address given and nothing else; every    *)
(* later call, whatever address it gives, fails with Unauthorized and      *)
(* changes nothing, and no step changes a registered address; while no     *)
(* token is registered every hook call fails with Unauthorized, poll_count *)
(* is 0 and there is no poll.                                              *)
C30_RegisteredOnce ==
    /\ [](/\ \A t \in RegisterArgs :
                LET o == register_contracts(t)
                IN IF config.whale_token = ""
                     THEN /\ o.result = "Ok"
                          /\ o.config = [config EXCEPT !.whale_token = t]
                          /\ o.state = state
                          /\ o.polls = polls
                     ELSE /\ o.result = "Unauthorized"
                          /\ SameStores(o)
          /\ config.whale_token = "" =>
                /\ state.poll_count = 0
                /\ polls = <<>>
                /\ \A sender \in HookSenders, hook \in {"CreatePoll", "Other"},
                      m \in Cw20Msgs :
                      /\ receive_cw20(sender, hook, m).result = "Unauthorized"
                      /\ SameStores(receive_cw20(sender, hook, m)))
    /\ [][/\ config.whale_token # "" =>
                config'.whale_token = config.whale_token
          /\ state'.poll_count # state.poll_count =>
                config.whale_token # ""]_vars

(* the token is registered and a poll exists; a call that gives another    *)
(* address is refused                                                      *)
C30_Witness ==
    /\ config.whale_token = TokenAddr
    /\ state.poll_count >= 1
    /\ register_contracts("alice").result = "Unauthorized"
    /\ register_contracts("alice").config.whale_token = TokenAddr

(* the staked balance that voting weight is computed against *)
Convertible == balance - state.total_deposit

(* the step ends poll p, and rejects it for quorum *)
EndsBelowQuorum(p) ==
    /\ polls[p].status = "InProgress"
    /\ polls'[p].status = "Rejected"
    /\ end_poll(p).rejected_reason = "Quorum not reached"

(* C31: with a closed token flow the balance never falls below             *)
(* total_deposit, so no Vote and no End fails with the underflow error;    *)
(* a step that ends a poll below quorum raises balance - total_deposit by  *)
(* exactly that poll's deposit, and every other step (Create, Vote,        *)
(* Execute, an End that reaches quorum, refund or not) leaves it as it was.*)
C31_ConvertibleClosed ==
    /\ [](/\ balance >= state.total_deposit
          /\ \A p \in PollIds :
                /\ end_poll(p).result # "Overflow"
                /\ \A v \in Voters, vote \in VoteOptions, amount \in Amounts :
                      cast_vote(v, p, vote, amount).result # "Overflow")
    /\ [][/\ \A p \in DOMAIN polls :
                EndsBelowQuorum(p) =>
                   Convertible' = Convertible + polls[p].deposit_amount
          /\ (\A p \in DOMAIN polls : ~EndsBelowQuorum(p)) =>
                Convertible' = Convertible]_vars

(* one poll was ended below quorum and its deposit stayed, another was     *)
(* ended above quorum and its deposit was refunded; the staked balance is  *)
(* now above zero                                                          *)
C31_Witness ==
    \E p, q \in DOMAIN polls :
       /\ polls[p].status = "Rejected"
       /\ polls[p].deposit_amount > 0
       /\ refunds[p] = 0
       /\ polls[q].status # "InProgress"
       /\ polls[q].deposit_amount > 0
       /\ refunds[q] = 1
       /\ state.total_deposit = 0
       /\ Convertible > 0

(* C32 as claimed: with an oracle balance of at least total_deposit, End   *)
(* of an InProgress poll succeeds at every height >= end_height, leaving   *)
(* the poll Passed or Rejected and its deposit out of total_deposit; and   *)
(* under a fair schedule, in every behaviour that keeps the oracle balance *)
(* at or above total_deposit, every created poll eventually leaves         *)
(* InProgress.                                                             *)
C32_NoPollStuck ==
    /\ [](\A p \in DOMAIN polls :
             (/\ polls[p].status = "InProgress"
              /\ height >= polls[p].end_height
              /\ balance >= state.total_deposit)
                => LET o == end_poll(p)
                   IN /\ o.result = "Ok"
                      /\ o.polls[p].status \in {"Passed", "Rejected"}
                      /\ o.state.total_deposit
                            = state.total_deposit - polls[p].deposit_amount)
    /\ ([](balance >= state.total_deposit)) =>
          \A p \in 1 .. MaxPolls :
             (p \in DOMAIN polls)
                ~> (p \in DOMAIN polls /\ polls[p].status # "InProgress")

(* the liveness half of C32 alone *)
EveryPollEnds ==
    ([](balance >= state.total_deposit)) =>
       \A p \in 1 .. MaxPolls :
          (p \in DOMAIN polls)
             ~> (p \in DOMAIN polls /\ polls[p].status # "InProgress")

(* what holds instead: End succeeds whenever the reference weight is       *)
(* defined and not zero, or total_share is zero                            *)
EndSucceedsOnReference ==
    \A p \in DOMAIN polls :
       (/\ polls[p].status = "InProgress"
        /\ height >= polls[p].end_height
        /\ \/ state.total_share = 0
           \/ polls[p].staked_amount # None /\ polls[p].staked_amount[1] > 0
           \/ polls[p].staked_amount = None /\ balance > state.total_deposit)
          => LET o == end_poll(p)
             IN /\ o.result = "Ok"
                /\ o.polls[p].status \in {"Passed", "Rejected"}
                /\ o.state.total_deposit
                      = state.total_deposit - polls[p].deposit_amount

(* no entry of the list occurs at two positions *)
NoDuplicates(list) ==
    \A i, j \in 1 .. Len(list) : list[i] = list[j] => i = j

(* the outcome changes neither the list nor the admin and sends nothing *)
TreasurySame(o) ==
    /\ o.traders = traders
    /\ o.admin = admin
    /\ o.messages = <<>>

(* C33: the trader list never holds an address twice.  AddTrader by the    *)
(* admin fails with AlreadyInList for a listed address and otherwise       *)
(* appends it; RemoveTrader by the admin fails with NotInList for an       *)
(* unlisted address and otherwise removes it; both fail and change nothing *)
(* for every other sender.  TraderAction forwards exactly its messages     *)
(* when its sender is listed and fails with SenderNotWhitelisted           *)
(* otherwise, and never changes the list.  A step that changes the list    *)
(* is an AddTrader or RemoveTrader of the admin.                           *)
C33_Whitelist ==
    /\ [](/\ NoDuplicates(traders)
          /\ \A sender \in TreasurySenders, trader \in TraderAddrs :
                LET a == add_trader(sender, trader)
                    r == remove_trader(sender, trader)
                    listed == Contains(traders, addr_canonicalize(trader))
                IN /\ sender # admin =>
                         /\ a.result \notin {"Ok", "AlreadyInList"}
                         /\ r.result \notin {"Ok", "NotInList"}
                         /\ TreasurySame(a)
                         /\ TreasurySame(r)
                   /\ (sender = admin /\ listed) =>
                         /\ a.result = "AlreadyInList"
                         /\ TreasurySame(a)
                         /\ r.result = "Ok"
                         /\ ~Contains(r.traders, addr_canonicalize(trader))
                         /\ \A t \in TraderAddrs \ {trader} :
                               Contains(r.traders, addr_canonicalize(t))
                                  = Contains(traders, addr_canonicalize(t))
                         /\ NoDuplicates(r.traders)
                   /\ (sender = admin /\ ~listed) =>
                         /\ r.result = "NotInList"
                         /\ TreasurySame(r)
                         /\ a.result = "Ok"
                         /\ a.traders = Append(traders,
                                               addr_canonicalize(trader))
                         /\ NoDuplicates(a.traders)
          /\ \A sender \in TreasurySenders, msgs \in MsgLists :
                LET o == execute_action(sender, msgs)
                IN /\ o.traders = traders
                   /\ o.admin = admin
                   /\ IF Contains(traders, addr_canonicalize(sender))
                        THEN o.result = "Ok" /\ o.messages = msgs
                        ELSE /\ o.result = "SenderNotWhitelisted"
                             /\ o.messages = <<>>)
    /\ [][traders' # traders =>
             \E trader \in TraderAddrs :
                \/ traders' = add_trader(admin, trader).traders
                \/ traders' = remove_trader(admin, trader).traders]_vars

(* two traders are listed, the one added first was removed and added       *)
(* again, the admin has changed hands; the old admin can no longer change  *)
(* the list, a listed address cannot be added again nor an unlisted one    *)
(* removed, and only the listed senders have their messages forwarded      *)
C33_Witness ==
    /\ traders = <<addr_canonicalize("dapp2"), addr_canonicalize("dapp1")>>
    /\ admin = "gov"
    /\ add_trader("owner", "dapp3").result = "NotAdmin"
    /\ add_trader("gov", "dapp1").result = "AlreadyInList"
    /\ remove_trader("gov", "dapp3").result = "NotInList"
    /\ execute_action("dapp3", <<"m1", "m2">>).result = "SenderNotWhitelisted"
    /\ execute_action("dapp2", <<"m1", "m2">>).messages = <<"m1", "m2">>

====
